---- MODULE Spec2Model ----
(***************************************************************************)
(* A model of diffusion.go (package paragon): the discrete diffusion       *)
(* scheduler (NewDiffusionModel, BetterAddNoise), the three generators     *)
(* (Generate, GenerateMasked, GenerateBetter) and the concurrent           *)
(* masked-loss trainer (trainMaskedDiffusion).                             *)
(*                                                                         *)
(* Floating-point probabilities are modelled as natural-number weights in  *)
(* a common unit: only their order, their sums and their comparison with   *)
(* zero and with the 1e-12 floor decide what the samplers do.  A uniform   *)
(* draw r in [0,1) enters as u = ceiling(r * total), a number in 0..total. *)
(* Schedule fractions are exact rationals [num, den].                      *)
(***************************************************************************)
EXTENDS Integers, Sequences, FiniteSets, TLC

(***************************************************************************)
(* Bounds of the model.                                                    *)
(***************************************************************************)
MaxT == 3          \* NumTimesteps ranges over 1..MaxT
MaxLen == 1        \* MaxLength ranges over 1..MaxLen
MaxWeight == 2     \* a probability weight ranges over 0..MaxWeight
MaxSeqLen == 3     \* a clean sequence given to a noising operation has 0..MaxSeqLen tokens
FracDen == 2       \* schedule endpoints are multiples of 1/FracDen
MaxSentences == 21 \* len(sentences) ranges over 0..MaxSentences
MaxCores == 4      \* runtime.NumCPU() ranges over 1..MaxCores
MaxEpochs == 2     \* Epochs ranges over 0..MaxEpochs in the trainer
MaxCorpus == 2     \* a corpus trained on sample by sample has 1..MaxCorpus samples

(***************************************************************************)
(* The tokenizer's reserved ids (NewCustomTokenizer) and the vocabulary.   *)
(***************************************************************************)
PAD == 0
MASK == 1
CLS == 2
SEP == 3
VocabSize == 4
Tokens == 0..(VocabSize - 1)

\* sum < 1e-12 in GenerateBetter, in weight units
MassFloor == 2

\* 0/0
NaN == [num |-> 0, den |-> 0]

Min2(a, b) == IF a < b THEN a ELSE b
Max2(a, b) == IF a > b THEN a ELSE b
MinOf(S) == CHOOSE x \in S : \A y \in S : x <= y

VARIABLES
  Config,           \* d.Config
  MaskFraction,     \* d.MaskFraction, indexed 0..NumTimesteps-1
  atNew,            \* history: Config and MaskFraction as NewDiffusionModel returned them
  gen,              \* the generator being run
  current,          \* current / xcur: the working sequence, positions 1..MaxLength
  step,             \* the loop variable: s in GenerateMasked, t in Generate and GenerateBetter
  pos,              \* the position loop's index, 1-based
  maskedPositions,  \* maskedPositions of the running step
  gpc,              \* where the generator is: "loop", "scan", "remask", "replace", "done", "panic"
  resolved,         \* history: what the last resolution of a masked position read and assigned
  stepStart,        \* history: the working sequence as the running iteration found it
  forwards,         \* history: ForwardTransformer calls made by the generator
  forwardInput,     \* history: the input of its last ForwardTransformer call
  remask,           \* history: what the last iteration's re-masking did
  nop,              \* the noising operation called
  x0,               \* its clean sequence
  tIdx,             \* its step index t
  noisy,            \* the sequence it returns
  npc,              \* "call" before it runs, "returned" after
  nSentences,       \* len(sentences)
  numCores,         \* runtime.NumCPU()
  epoch,            \* the epoch loop's variable
  mpc,              \* where trainMaskedDiffusion's own thread is
  iBatch,           \* i, the batch loop's variable
  sem,              \* how many values the semaphore channel holds
  wg,               \* the WaitGroup's counter
  task,             \* per batch index: the task's position, its startIdx and its batch's length
  cpc,              \* where the closing goroutine is
  lossChan,         \* the values buffered in lossChan
  errorTermsChan,   \* the values buffered in errorTermsChan
  lossClosed,       \* lossChan is closed
  errClosed,        \* errorTermsChan is closed
  totalLoss,        \* totalLoss
  accumulatedErrorTerms,  \* one row per sentence, indexed from 0
  backwards,        \* history: Backward calls made in the running epoch
  arrival,          \* history: the batch indices in the order their rows were received
  written,          \* history: per accumulator row, the batches whose rows were stored there
  trainer,          \* the sample-at-a-time view: the trainer whose loop body runs
  spc,              \* where that trainer is
  sEpoch,           \* its epoch loop's variable
  sIdx,             \* how many samples of the corpus the running epoch has taken
  nData,            \* the size of its corpus
  tokens,           \* the clean sample: tokens / x0
  sT,               \* the step drawn for it: t
  noisyTokens,      \* its noised sequence: noisyTokens / xt
  input,            \* history: the input of the last ForwardTransformer call
  sPos,             \* the loss loop's position, 1-based
  lossAt,           \* history: what the loss loop did at the last position it handled
  samples,          \* the caller's samples slice: the references it holds, in order
  data,             \* TrainBetterDiffusion's data slice: the references it holds, in order
  arrays            \* the contents of the arrays the references point to

modelVars == <<Config, MaskFraction, atNew>>
genHist == <<stepStart, forwards, forwardInput, remask>>
genVars == <<gen, current, step, pos, maskedPositions, gpc, resolved, stepStart, forwards,
             forwardInput, remask>>
callerVars == <<samples, data, arrays>>
seqVars == <<trainer, spc, sEpoch, sIdx, nData, tokens, sT, noisyTokens, input, sPos, lossAt,
             samples, data, arrays>>
noiseVars == <<nop, x0, tIdx, noisy, npc>>
chanVars == <<lossChan, errorTermsChan, lossClosed, errClosed>>
trainVars == <<nSentences, numCores, epoch, mpc, iBatch, sem, wg, task, cpc, lossChan, errorTermsChan,
               lossClosed, errClosed, totalLoss, accumulatedErrorTerms, backwards, arrival, written>>
vars == <<Config, MaskFraction, atNew, gen, current, step, pos, maskedPositions, gpc, resolved,
          stepStart, forwards, forwardInput, remask,
          nop, x0, tIdx, noisy, npc,
          trainer, spc, sEpoch, sIdx, nData, tokens, sT, noisyTokens, input, sPos, lossAt,
          samples, data, arrays,
          nSentences, numCores, epoch, mpc, iBatch, sem, wg, task, cpc, lossChan, errorTermsChan,
          lossClosed, errClosed, totalLoss, accumulatedErrorTerms, backwards, arrival, written>>

\* the variables of the operations a specification does not run
NoGenerator ==
  /\ gen = "none" /\ current = <<>> /\ step = 0 /\ pos = 1
  /\ maskedPositions = {} /\ gpc = "idle" /\ resolved = [tok |-> -1, above |-> 0, mass |-> 0, k |-> 0]
  /\ stepStart = <<>> /\ forwards = 0 /\ forwardInput = <<>>
  /\ remask = [ran |-> FALSE, num |-> 0, den |-> 1, R |-> {}, step |-> -1, iter |-> 0]
NoNoising ==
  /\ nop = "none" /\ x0 = <<>> /\ tIdx = 0 /\ noisy = <<>> /\ npc = "idle"
NoTraining ==
  /\ nSentences = 0 /\ numCores = 1 /\ epoch = 0 /\ mpc = "idle" /\ iBatch = 0 /\ sem = 0 /\ wg = 0
  /\ task = <<>> /\ cpc = "idle" /\ lossChan = <<>> /\ errorTermsChan = <<>>
  /\ lossClosed = FALSE /\ errClosed = FALSE /\ totalLoss = 0
  /\ accumulatedErrorTerms = <<>> /\ backwards = 0 /\ arrival = <<>> /\ written = <<>>
NoSampleTrainer ==
  /\ trainer = "none" /\ spc = "idle" /\ sEpoch = 0 /\ sIdx = 0 /\ nData = 0 /\ tokens = <<>>
  /\ sT = 0 /\ noisyTokens = <<>> /\ input = <<>> /\ sPos = 1
  /\ lossAt = [pos |-> 0, clean |-> -1, noisy |-> -1, counted |-> FALSE, num |-> 0, den |-> 1,
               row |-> <<>>]
  /\ samples = <<>> /\ data = <<>> /\ arrays = <<>>

(***************************************************************************)
(* NewDiffusionModel                                                       *)
(***************************************************************************)
ClampNone(num, den) == num

\* if frac < 0 { frac = 0 }; if frac > 1 { frac = 1 }
Clamp01(num, den) == IF num < 0 THEN 0 ELSE IF num > den THEN den ELSE num

\* frac = start + (end-start)*t/(T-1), clamped to [0,1]; 0/0 is NaN when T = 1,
\* and NaN passes both comparisons.
ScheduleFraction(start, end, t, T) ==
  IF T = 1 THEN NaN
  ELSE LET den == FracDen * (T - 1)
           num == start * (T - 1) + (end - start) * t
       IN [num |-> Clamp01(num, den), den |-> den]

NewDiffusionModel(config) ==
  [Config |-> config,
   MaskFraction |-> [t \in 0..(config.NumTimesteps - 1) |->
                       ScheduleFraction(config.MaskScheduleStart, config.MaskScheduleEnd,
                                        t, config.NumTimesteps)]]

TopKs == 0..(VocabSize + 1)

\* The configurations the generators are run under.
GenConfigs ==
  [NumTimesteps : 1..MaxT, MaxLength : 1..MaxLen, TopK : TopKs, Epochs : {1},
   MaskScheduleStart : {0}, MaskScheduleEnd : {FracDen}]

(***************************************************************************)
(* The model's output at one position, as Softmax returns it: a weight per *)
(* token, not all zero.                                                    *)
(***************************************************************************)
ProbVectors == {p \in [Tokens -> 0..MaxWeight] : \E j \in Tokens : p[j] > 0}

ZeroMaskSkipped(p) == p

\* probs[maskID] = 0  /  if j == maskTokenID { prob = 0 }
ZeroMask(p) == [p EXCEPT ![MASK] = 0]

MaskedOutVectors == {ZeroMask(p) : p \in ProbVectors}

RECURSIVE Cumulative(_, _, _)
\* the sum of the first n entries of the candidate list
Cumulative(w, o, n) == IF n = 0 THEN 0 ELSE Cumulative(w, o, n - 1) + w[o[n]]

Mass(w) == Cumulative(w, [j \in 1..VocabSize |-> j - 1], VocabSize)

Perms == {o \in [1..VocabSize -> Tokens] : \A a, b \in 1..VocabSize : a # b => o[a] # o[b]}

\* sort.Slice by descending prob: any order with no ascent (the sort is not stable)
SortedOrders == [w \in MaskedOutVectors |->
                   {o \in Perms : \A a \in 1..(VocabSize - 1) : w[o[a]] >= w[o[a + 1]]}]

TopKSliceAll(o, k) == o

\* topK = topK[:d.Config.TopK]
TopKSlice(o, k) == SubSeq(o, 1, k)

\* the inverse-CDF loop: the first candidate whose cumulative weight reaches the
\* draw, the first candidate of the list when none does
InverseCDF(top, w, u) ==
  LET hits == {n \in 1..Len(top) : u <= Cumulative(w, top, n)}
  IN IF hits # {} THEN top[MinOf(hits)] ELSE top[1]

Uniform == [j \in Tokens |-> 1]

\* the lowest index holding the highest weight
ArgMax(p) == MinOf({j \in Tokens : \A m \in Tokens : p[m] <= p[j]})

\* history values: how many candidates outweigh tok, and the mass up to the floor
Above(w, tok) == Cardinality({j \in Tokens : w[j] > w[tok]})
MassClass(w) == Min2(Mass(w), MassFloor)
NoResolution == [tok |-> -1, above |-> 0, mass |-> 0, k |-> 0]
Resolution(w, tok, k) == [tok |-> tok, above |-> Above(w, tok), mass |-> MassClass(w), k |-> k]

AllMasked(L) == [i \in 1..L |-> MASK]
Remasked(seq, R) == [i \in 1..Len(seq) |-> IF i \in R THEN MASK ELSE seq[i]]

\* the [len(seq)][VocabSize] input built from a sequence: row[tok] = 1.0 where tok is
\* a vocabulary id, a row of zeros where it is not
OneHot(seq) == [i \in 1..Len(seq) |-> [j \in Tokens |-> IF j = seq[i] THEN 1 ELSE 0]]

NoRemask == [ran |-> FALSE, num |-> 0, den |-> 1, R |-> {}, step |-> -1, iter |-> 0]

RemaskProbabilitySwapped(g, s, T) ==
  IF g = "GenerateMasked" THEN [num |-> s, den |-> T] ELSE [num |-> s - 1, den |-> s]

\* pRemask: float64(s-1)/float64(s) in GenerateMasked, float64(t)/float64(NumTimesteps)
\* in GenerateBetter
RemaskProbability(g, s, T) ==
  IF g = "GenerateMasked" THEN [num |-> s - 1, den |-> s] ELSE [num |-> s, den |-> T]

RemaskableAll(mp, seq) == 1..Len(seq)

\* for _, i := range maskedPositions
Remaskable(mp, seq) == mp

\* the positions for which rand.Float64() < pRemask, one draw in [0,1) per position
RemaskDraws(mp, p) ==
  IF p.num <= 0 THEN {{}} ELSE IF p.num >= p.den THEN {mp} ELSE SUBSET mp

\* Replace remaining [MASK] with 0
ReplaceMask(seq) == [i \in 1..Len(seq) |-> IF seq[i] = MASK THEN 0 ELSE seq[i]]

(***************************************************************************)
(* Generate                                                                *)
(***************************************************************************)
GenerateInit ==
  /\ gen = "Generate"
  /\ current \in [1..Config.MaxLength -> Tokens]
  /\ step = Config.NumTimesteps - 1
  /\ gpc = "loop"

GenerateLoop ==
  /\ gen = "Generate" /\ gpc = "loop"
  /\ IF step >= 0
     THEN /\ gpc' = "scan" /\ pos' = 1
          /\ stepStart' = current
          /\ forwardInput' = OneHot(current)
          /\ forwards' = forwards + 1
     ELSE /\ gpc' = "done" /\ pos' = pos
          /\ UNCHANGED <<stepStart, forwardInput, forwards>>
  /\ UNCHANGED <<modelVars, gen, current, step, maskedPositions, resolved, remask, noiseVars, seqVars,
                 trainVars>>

GenerateArgMax ==
  /\ gen = "Generate" /\ gpc = "scan" /\ pos <= Config.MaxLength
  /\ \E probs \in ProbVectors : current' = [current EXCEPT ![pos] = ArgMax(probs)]
  /\ pos' = pos + 1
  /\ UNCHANGED <<modelVars, gen, step, maskedPositions, gpc, resolved, genHist, noiseVars, seqVars, trainVars>>

GenerateNext ==
  /\ gen = "Generate" /\ gpc = "scan" /\ pos > Config.MaxLength
  /\ step' = step - 1
  /\ gpc' = "loop"
  /\ UNCHANGED <<modelVars, gen, current, pos, maskedPositions, resolved, genHist, noiseVars, seqVars, trainVars>>

(***************************************************************************)
(* GenerateMasked                                                          *)
(***************************************************************************)
GenerateMaskedInit ==
  /\ gen = "GenerateMasked"
  /\ current = AllMasked(Config.MaxLength)
  /\ step = Config.NumTimesteps
  /\ gpc = "loop"

GenerateMaskedLoop ==
  /\ gen = "GenerateMasked" /\ gpc = "loop"
  /\ IF step > 0
     THEN /\ gpc' = "scan" /\ pos' = 1 /\ maskedPositions' = {}
          /\ stepStart' = current
          /\ forwardInput' = OneHot(current)
          /\ forwards' = forwards + 1
     ELSE /\ gpc' = "replace" /\ pos' = pos /\ maskedPositions' = maskedPositions
          /\ UNCHANGED <<stepStart, forwardInput, forwards>>
  /\ UNCHANGED <<modelVars, gen, current, step, resolved, remask, noiseVars, seqVars, trainVars>>

GenerateMaskedSkip ==
  /\ gen = "GenerateMasked" /\ gpc = "scan" /\ pos <= Config.MaxLength
  /\ current[pos] # MASK
  /\ pos' = pos + 1
  /\ UNCHANGED <<modelVars, gen, current, step, maskedPositions, gpc, resolved, genHist, noiseVars, seqVars, trainVars>>

\* topK[:TopK] panics for TopK < 0 or TopK > VocabSize, topK[0] for TopK = 0
GenerateMaskedPanic ==
  /\ gen = "GenerateMasked" /\ gpc = "scan" /\ pos <= Config.MaxLength
  /\ current[pos] = MASK
  /\ Config.TopK < 1 \/ Config.TopK > VocabSize
  /\ maskedPositions' = maskedPositions \cup {pos}
  /\ gpc' = "panic"
  /\ UNCHANGED <<modelVars, gen, current, step, pos, resolved, genHist, noiseVars, seqVars, trainVars>>

\* what one resolution of GenerateMasked can read and select under a top-k cut: every
\* output w, every order o the sort can leave, every draw u
GenerateMaskedSelections(k) ==
  UNION {UNION {LET topK == TopKSlice(o, k)
                    sum == Cumulative(w, topK, Len(topK))
                IN {Resolution(w, IF sum = 0 THEN InverseCDF(topK, Uniform, u)
                                             ELSE InverseCDF(topK, w, u), k) :
                      u \in 0..(IF sum = 0 THEN k ELSE sum)} :
                o \in SortedOrders[w]} :
         w \in MaskedOutVectors}

GenerateMaskedOutcomes == [k \in 1..VocabSize |-> GenerateMaskedSelections(k)]

GenerateMaskedResolve ==
  /\ gen = "GenerateMasked" /\ gpc = "scan" /\ pos <= Config.MaxLength
  /\ current[pos] = MASK
  /\ Config.TopK >= 1 /\ Config.TopK <= VocabSize
  /\ \E outcome \in GenerateMaskedOutcomes[Config.TopK] :
       /\ current' = [current EXCEPT ![pos] = outcome.tok]
       /\ resolved' = outcome
  /\ maskedPositions' = maskedPositions \cup {pos}
  /\ pos' = pos + 1
  /\ UNCHANGED <<modelVars, gen, step, gpc, genHist, noiseVars, seqVars, trainVars>>

GenerateMaskedRemask ==
  /\ gen = "GenerateMasked" /\ gpc = "scan" /\ pos > Config.MaxLength
  /\ IF step > 1
     THEN LET pRemask == RemaskProbability(gen, step, Config.NumTimesteps)
          IN \E R \in RemaskDraws(Remaskable(maskedPositions, current), pRemask) :
               /\ current' = Remasked(current, R)
               /\ remask' = [ran |-> TRUE, num |-> pRemask.num, den |-> pRemask.den, R |-> R,
                             step |-> step, iter |-> forwards]
     ELSE /\ current' = current
          /\ remask' = [ran |-> FALSE, num |-> 0, den |-> 1, R |-> {}, step |-> step,
                        iter |-> forwards]
  /\ step' = step - 1
  /\ gpc' = "loop"
  /\ UNCHANGED <<modelVars, gen, pos, maskedPositions, resolved, stepStart, forwards, forwardInput,
                 noiseVars, seqVars, trainVars>>

GenerateMaskedReplace ==
  /\ gen = "GenerateMasked" /\ gpc = "replace"
  /\ current' = ReplaceMask(current)
  /\ gpc' = "done"
  /\ UNCHANGED <<modelVars, gen, step, pos, maskedPositions, resolved, genHist, noiseVars, seqVars, trainVars>>

(***************************************************************************)
(* GenerateBetter                                                          *)
(***************************************************************************)
\* if TopK < 1 { TopK = 1 }; if TopK > len(topKSlice) { TopK = len(topKSlice) }
ClampTopK(k, n) == IF k < 1 THEN 1 ELSE IF k > n THEN n ELSE k

\* what one resolution of GenerateBetter can read and choose when the mass reaches the
\* floor: every output w, every order o the sort can leave, every draw u
GenerateBetterSelections(configured) ==
  UNION {UNION {LET k == ClampTopK(configured, Len(o))
                    topKSlice == TopKSlice(o, k)
                IN {Resolution(w, InverseCDF(topKSlice, w, u), k) : u \in 0..Mass(w)} :
                o \in SortedOrders[w]} :
         w \in {v \in MaskedOutVectors : Mass(v) >= MassFloor}}

GenerateBetterOutcomes == [configured \in TopKs |-> GenerateBetterSelections(configured)]

GenerateBetterInit ==
  /\ gen = "GenerateBetter"
  /\ current = AllMasked(Config.MaxLength)
  /\ step = Config.NumTimesteps - 1
  /\ gpc = "loop"

GenerateBetterLoop ==
  /\ gen = "GenerateBetter" /\ gpc = "loop"
  /\ IF step >= 0
     THEN /\ gpc' = "scan" /\ pos' = 1 /\ maskedPositions' = {}
          /\ stepStart' = current
          /\ forwardInput' = OneHot(current)
          /\ forwards' = forwards + 1
     ELSE /\ gpc' = "replace" /\ pos' = pos /\ maskedPositions' = maskedPositions
          /\ UNCHANGED <<stepStart, forwardInput, forwards>>
  /\ UNCHANGED <<modelVars, gen, current, step, resolved, remask, noiseVars, seqVars, trainVars>>

GenerateBetterSkip ==
  /\ gen = "GenerateBetter" /\ gpc = "scan" /\ pos <= Config.MaxLength
  /\ current[pos] # MASK
  /\ pos' = pos + 1
  /\ UNCHANGED <<modelVars, gen, current, step, maskedPositions, gpc, resolved, genHist, noiseVars, seqVars, trainVars>>

\* sum < 1e-12: xcur[i] = 0; continue
GenerateBetterFallback ==
  /\ gen = "GenerateBetter" /\ gpc = "scan" /\ pos <= Config.MaxLength
  /\ current[pos] = MASK
  /\ \E w \in MaskedOutVectors :
       /\ Mass(w) < MassFloor
       /\ current' = [current EXCEPT ![pos] = 0]
       /\ resolved' = Resolution(w, 0, Config.TopK)
  /\ maskedPositions' = maskedPositions \cup {pos}
  /\ pos' = pos + 1
  /\ UNCHANGED <<modelVars, gen, step, gpc, genHist, noiseVars, seqVars, trainVars>>

GenerateBetterResolve ==
  /\ gen = "GenerateBetter" /\ gpc = "scan" /\ pos <= Config.MaxLength
  /\ current[pos] = MASK
  /\ \E outcome \in GenerateBetterOutcomes[Config.TopK] :
       /\ Config' = [Config EXCEPT !.TopK = outcome.k]
       /\ current' = [current EXCEPT ![pos] = outcome.tok]
       /\ resolved' = outcome
  /\ maskedPositions' = maskedPositions \cup {pos}
  /\ pos' = pos + 1
  /\ UNCHANGED <<MaskFraction, atNew, gen, step, gpc, genHist, noiseVars, seqVars, trainVars>>

GenerateBetterRemask ==
  /\ gen = "GenerateBetter" /\ gpc = "scan" /\ pos > Config.MaxLength
  /\ IF step > 0
     THEN LET pRemask == RemaskProbability(gen, step, Config.NumTimesteps)
          IN \E R \in RemaskDraws(Remaskable(maskedPositions, current), pRemask) :
               /\ current' = Remasked(current, R)
               /\ remask' = [ran |-> TRUE, num |-> pRemask.num, den |-> pRemask.den, R |-> R,
                             step |-> step, iter |-> forwards]
     ELSE /\ current' = current
          /\ remask' = [ran |-> FALSE, num |-> 0, den |-> 1, R |-> {}, step |-> step,
                        iter |-> forwards]
  /\ step' = step - 1
  /\ gpc' = "loop"
  /\ UNCHANGED <<modelVars, gen, pos, maskedPositions, resolved, stepStart, forwards, forwardInput,
                 noiseVars, seqVars, trainVars>>

GenerateBetterReplace ==
  /\ gen = "GenerateBetter" /\ gpc = "replace"
  /\ current' = ReplaceMask(current)
  /\ gpc' = "done"
  /\ UNCHANGED <<modelVars, gen, step, pos, maskedPositions, resolved, genHist, noiseVars, seqVars, trainVars>>

(***************************************************************************)
(* The generators' specification: a model is built, one generator is       *)
(* called on it and runs to its return or its panic.                       *)
(***************************************************************************)
InitGen ==
  /\ \E config \in GenConfigs :
       /\ Config = NewDiffusionModel(config).Config
       /\ MaskFraction = NewDiffusionModel(config).MaskFraction
       /\ atNew = NewDiffusionModel(config)
  /\ GenerateInit \/ GenerateMaskedInit \/ GenerateBetterInit
  /\ pos = 1
  /\ maskedPositions = {}
  /\ resolved = NoResolution
  /\ forwards = 0 /\ forwardInput = <<>> /\ stepStart = current /\ remask = NoRemask
  /\ NoNoising
  /\ NoTraining
  /\ NoSampleTrainer

NextGen ==
  \/ GenerateLoop
  \/ GenerateArgMax
  \/ GenerateNext
  \/ GenerateMaskedLoop
  \/ GenerateMaskedSkip
  \/ GenerateMaskedPanic
  \/ GenerateMaskedResolve
  \/ GenerateMaskedRemask
  \/ GenerateMaskedReplace
  \/ GenerateBetterLoop
  \/ GenerateBetterSkip
  \/ GenerateBetterFallback
  \/ GenerateBetterResolve
  \/ GenerateBetterRemask
  \/ GenerateBetterReplace

SpecGen == InitGen /\ [][NextGen]_vars

(***************************************************************************)
(* BetterAddNoise                                                          *)
(***************************************************************************)
\* the indices of the non-pad tokens, in order
NonPadIndices(seq) == {i \in 1..Len(seq) : seq[i] # PAD}

\* rand.Shuffle: every order of the indices
Shuffles(S) ==
  {o \in [1..Cardinality(S) -> S] : \A a, b \in 1..Cardinality(S) : a # b => o[a] # o[b]}

MaskCountTruncated(n, fraction) == (n * fraction.num) \div fraction.den

\* k := int(math.Round(float64(len(idxes)) * fraction)): halves round away from zero
MaskCount(n, fraction) == (2 * n * fraction.num + fraction.den) \div (2 * fraction.den)

\* fraction <= 0, false of NaN
NotPositive(fraction) == fraction.den > 0 /\ fraction.num <= 0

CallerArrayAliased(caller, callee) == callee

\* noisy := make([]int, len(x0)); copy(noisy, x0): the callee writes into an array of
\* its own, and the array the caller passed keeps its contents
CallerArray(caller, callee) == caller

\* the values k can take: int() of a NaN is implementation-dependent, the lowest
\* int on some targets, 0 or the highest int on others
MaskCounts(n, fraction) ==
  IF fraction = NaN THEN {0 - (n + 1), 0, n + 1} ELSE {MaskCount(n, fraction)}

\* what BetterAddNoise can return for a clean sequence and a fraction; the masking
\* loop indexes idxes out of range, and panics, when k exceeds len(idxes)
BetterNoised(clean, fraction) ==
  IF NotPositive(fraction)
  THEN {[panic |-> FALSE, seq |-> clean]}
  ELSE UNION {{IF k > Len(idxes)
               THEN [panic |-> TRUE, seq |-> <<>>]
               ELSE [panic |-> FALSE,
                     seq |-> [i \in 1..Len(clean) |->
                                IF \E n \in 1..k : idxes[n] = i THEN MASK ELSE clean[i]]] :
               k \in MaskCounts(Len(idxes), fraction)} :
              idxes \in Shuffles(NonPadIndices(clean))}

BetterAddNoise ==
  /\ nop = "BetterAddNoise" /\ npc = "call"
  /\ \E result \in BetterNoised(x0, MaskFraction[tIdx]) :
       /\ noisy' = result.seq
       /\ npc' = IF result.panic THEN "panic" ELSE "returned"
  /\ x0' = CallerArray(x0, noisy')
  /\ UNCHANGED <<modelVars, genVars, seqVars, nop, tIdx, trainVars>>

(***************************************************************************)
(* AddNoise and AddNoiseMasked                                             *)
(***************************************************************************)
KeepLength(toks, L) == toks

\* noisyTokens := make([]int, MaxLength), filled with the first MaxLength tokens and
\* padded with [PAD]
PadOrTruncate(toks, L) == [i \in 1..L |-> IF i <= Len(toks) THEN toks[i] ELSE PAD]

\* noiseLevel := math.Min(0.8, float64(t+1)/float64(NumTimesteps))
NoiseLevel(t, T) == IF 5 * (t + 1) < 4 * T THEN [num |-> t + 1, den |-> T] ELSE [num |-> 4, den |-> 5]

\* what the two operations can return: the non-PAD positions whose draw is under the
\* noise level are set to MASK
RandomlyMasked(toks, level, L) ==
  LET base == PadOrTruncate(toks, L)
  IN {Remasked(base, R) : R \in RemaskDraws({i \in 1..Len(base) : base[i] # PAD}, level)}

AddNoise ==
  /\ nop = "AddNoise" /\ npc = "call"
  /\ noisy' \in RandomlyMasked(x0, NoiseLevel(tIdx, Config.NumTimesteps), Config.MaxLength)
  /\ x0' = CallerArray(x0, noisy')
  /\ npc' = "returned"
  /\ UNCHANGED <<modelVars, genVars, seqVars, nop, tIdx, trainVars>>

\* tVal, the noise level itself, is tIdx / FracDen here
AddNoiseMasked ==
  /\ nop = "AddNoiseMasked" /\ npc = "call"
  /\ noisy' \in RandomlyMasked(x0, [num |-> tIdx, den |-> FracDen], Config.MaxLength)
  /\ x0' = CallerArray(x0, noisy')
  /\ npc' = "returned"
  /\ UNCHANGED <<modelVars, genVars, seqVars, nop, tIdx, trainVars>>

(***************************************************************************)
(* The noising specification: a model is built with a schedule, and a      *)
(* noising operation is called once on a clean sequence and a step.        *)
(***************************************************************************)
ScheduleEnds == (-1)..(FracDen + 1)

NoiseConfigs ==
  [NumTimesteps : 2..MaxT, MaxLength : {MaxLen}, TopK : {1}, Epochs : {1},
   MaskScheduleStart : ScheduleEnds, MaskScheduleEnd : ScheduleEnds]

CleanSequences == UNION {[1..n -> Tokens] : n \in 0..MaxSeqLen}

InitNoise ==
  /\ \E config \in NoiseConfigs :
       /\ Config = NewDiffusionModel(config).Config
       /\ MaskFraction = NewDiffusionModel(config).MaskFraction
       /\ atNew = NewDiffusionModel(config)
  /\ nop \in {"AddNoise", "AddNoiseMasked", "BetterAddNoise"}
  /\ x0 \in CleanSequences
  /\ tIdx \in (IF nop = "AddNoiseMasked" THEN 0..FracDen ELSE 0..(Config.NumTimesteps - 1))
  /\ noisy = <<>>
  /\ npc = "call"
  /\ NoGenerator
  /\ NoTraining
  /\ NoSampleTrainer

NextNoise ==
  \/ AddNoise
  \/ AddNoiseMasked
  \/ BetterAddNoise

SpecNoise == InitNoise /\ [][NextNoise]_vars

(***************************************************************************)
(* trainMaskedDiffusion                                                    *)
(***************************************************************************)
BatchSize == 10

\* numThreads := int(float64(numCores) * 0.8), at least 1
NumThreads(cores) == Max2(1, (cores * 8) \div 10)

\* numBatches := (len(sentences) + batchSize - 1) / batchSize
NumBatches(n) == (n + BatchSize - 1) \div BatchSize

BatchIdxOf(start) == start \div BatchSize

\* a row of make([]float64, MaxLength*VocabSize), and the row a task computes for
\* the sample at a corpus index
ZeroRow == 0
ErrorRowOf(g) == g + 1
\* loss / float64(len(batch)) of a batch
LossOf(idx) == idx + 1

ChanCapacityOne(n) == 1

\* make(chan float64, numBatches), make(chan struct{...}, numBatches)
ChanCapacity(n) == NumBatches(n)

Unspawned == [pc |-> "unspawned", startIdx |-> 0, size |-> 0]

SemAlwaysRoom(s, n) == TRUE

\* sem <- struct{}{} goes through while the channel holds fewer than numThreads values
SemHasRoom(s, n) == s < n

WaitSkipped(counter) == TRUE

\* wg.Wait() returns
WaitOver(counter) == counter = 0

RangeEndsWhenEmpty(ch, closed) == ch = <<>>

\* a range over a channel ends once the channel is closed and drained
RangeEnds(ch, closed) == closed /\ ch = <<>>

PlaceFromZero(idx) == 0

\* start := et.batchIdx * batchSize
PlaceStart(idx) == idx * BatchSize

\* the indices start+j, j over et.terms, that lie inside the accumulator
PlacedRows(acc, et) ==
  {g \in DOMAIN acc : g >= PlaceStart(et.batchIdx) /\ g - PlaceStart(et.batchIdx) < Len(et.terms)}

PlacedFirstRow(acc, et) ==
  [g \in DOMAIN acc |->
     IF g = PlaceStart(et.batchIdx) /\ Len(et.terms) > 0 THEN et.terms[1] ELSE acc[g]]

\* the rows of et.terms written at start+j, where that is inside the accumulator
Placed(acc, et) ==
  [g \in DOMAIN acc |->
     IF g \in PlacedRows(acc, et)
     THEN et.terms[g - PlaceStart(et.batchIdx) + 1]
     ELSE acc[g]]

\* the epoch loop's test, and what the loop body sets up before the batch loop
TrainEpoch ==
  /\ mpc = "epoch"
  /\ IF epoch < Config.Epochs
     THEN /\ mpc' = "spawn"
          /\ iBatch' = 0
          /\ sem' = 0 /\ wg' = 0
          /\ totalLoss' = 0
          /\ accumulatedErrorTerms' = [g \in 0..(nSentences - 1) |-> ZeroRow]
          /\ lossChan' = <<>> /\ errorTermsChan' = <<>>
          /\ lossClosed' = FALSE /\ errClosed' = FALSE
          /\ task' = [b \in 0..(NumBatches(nSentences) - 1) |-> Unspawned]
          /\ cpc' = "idle"
          /\ backwards' = 0
          /\ arrival' = <<>>
          /\ written' = [g \in 0..(nSentences - 1) |-> <<>>]
     ELSE /\ mpc' = "returned"
          /\ UNCHANGED <<iBatch, sem, wg, totalLoss, accumulatedErrorTerms, chanVars, task, cpc,
                         backwards, arrival, written>>
  /\ UNCHANGED <<modelVars, genVars, seqVars, noiseVars, nSentences, numCores, epoch>>

\* wg.Add(1); sem <- struct{}{}; go func(i, batchData, batchIdx)
TrainSpawn ==
  /\ mpc = "spawn" /\ iBatch < nSentences
  /\ SemHasRoom(sem, NumThreads(numCores))
  /\ wg' = wg + 1
  /\ sem' = sem + 1
  /\ task' = [task EXCEPT ![BatchIdxOf(iBatch)] =
                [pc |-> "forward", startIdx |-> iBatch,
                 size |-> Min2(iBatch + BatchSize, nSentences) - iBatch]]
  /\ iBatch' = iBatch + BatchSize
  /\ UNCHANGED <<modelVars, genVars, seqVars, noiseVars, nSentences, numCores, epoch, mpc, cpc, chanVars,
                 totalLoss, accumulatedErrorTerms, backwards, arrival, written>>

\* the batch loop ends; go func() { wg.Wait(); close(lossChan); close(errorTermsChan) }()
TrainGoCloser ==
  /\ mpc = "spawn" /\ iBatch >= nSentences
  /\ cpc' = "wait"
  /\ mpc' = "rangeLoss"
  /\ UNCHANGED <<modelVars, genVars, seqVars, noiseVars, nSentences, numCores, epoch, iBatch, sem, wg, task,
                 chanVars, totalLoss, accumulatedErrorTerms, backwards, arrival, written>>

\* a task noises its samples, runs ForwardTransformer on each and computes the loss
\* and the error rows
TaskForward(b) ==
  /\ task[b].pc = "forward"
  /\ task' = [task EXCEPT ![b].pc = "sendLoss"]
  /\ UNCHANGED <<modelVars, genVars, seqVars, noiseVars, nSentences, numCores, epoch, mpc, iBatch, sem, wg,
                 cpc, chanVars, totalLoss, accumulatedErrorTerms, backwards, arrival, written>>

\* lossChan <- loss / float64(len(batch))
TaskSendLoss(b) ==
  /\ task[b].pc = "sendLoss"
  /\ Len(lossChan) < ChanCapacity(nSentences)
  /\ lossChan' = Append(lossChan, LossOf(b))
  /\ task' = [task EXCEPT ![b].pc = "sendErr"]
  /\ UNCHANGED <<modelVars, genVars, seqVars, noiseVars, nSentences, numCores, epoch, mpc, iBatch, sem, wg,
                 cpc, errorTermsChan, lossClosed, errClosed, totalLoss, accumulatedErrorTerms,
                 backwards, arrival, written>>

\* errorTermsChan <- {batchErrorTerms, idx}
TaskSendErr(b) ==
  /\ task[b].pc = "sendErr"
  /\ Len(errorTermsChan) < ChanCapacity(nSentences)
  /\ errorTermsChan' =
       Append(errorTermsChan,
              [terms |-> [j \in 1..task[b].size |-> ErrorRowOf(task[b].startIdx + j - 1)],
               batchIdx |-> b])
  /\ task' = [task EXCEPT ![b].pc = "release"]
  /\ UNCHANGED <<modelVars, genVars, seqVars, noiseVars, nSentences, numCores, epoch, mpc, iBatch, sem, wg,
                 cpc, lossChan, lossClosed, errClosed, totalLoss, accumulatedErrorTerms,
                 backwards, arrival, written>>

\* the deferred calls run last-deferred first: defer func() { <-sem }()
TaskReleaseSem(b) ==
  /\ task[b].pc = "release"
  /\ sem' = sem - 1
  /\ task' = [task EXCEPT ![b].pc = "wgDone"]
  /\ UNCHANGED <<modelVars, genVars, seqVars, noiseVars, nSentences, numCores, epoch, mpc, iBatch, wg, cpc,
                 chanVars, totalLoss, accumulatedErrorTerms, backwards, arrival, written>>

\* defer wg.Done()
TaskWgDone(b) ==
  /\ task[b].pc = "wgDone"
  /\ wg' = wg - 1
  /\ task' = [task EXCEPT ![b].pc = "done"]
  /\ UNCHANGED <<modelVars, genVars, seqVars, noiseVars, nSentences, numCores, epoch, mpc, iBatch, sem, cpc,
                 chanVars, totalLoss, accumulatedErrorTerms, backwards, arrival, written>>

CloserWait ==
  /\ cpc = "wait"
  /\ WaitOver(wg)
  /\ cpc' = "closeLoss"
  /\ UNCHANGED <<modelVars, genVars, seqVars, noiseVars, nSentences, numCores, epoch, mpc, iBatch, sem, wg,
                 task, chanVars, totalLoss, accumulatedErrorTerms, backwards, arrival, written>>

CloserCloseLoss ==
  /\ cpc = "closeLoss"
  /\ lossClosed' = TRUE
  /\ cpc' = "closeErr"
  /\ UNCHANGED <<modelVars, genVars, seqVars, noiseVars, nSentences, numCores, epoch, mpc, iBatch, sem, wg,
                 task, lossChan, errorTermsChan, errClosed, totalLoss, accumulatedErrorTerms,
                 backwards, arrival, written>>

CloserCloseErr ==
  /\ cpc = "closeErr"
  /\ errClosed' = TRUE
  /\ cpc' = "exit"
  /\ UNCHANGED <<modelVars, genVars, seqVars, noiseVars, nSentences, numCores, epoch, mpc, iBatch, sem, wg,
                 task, lossChan, errorTermsChan, lossClosed, totalLoss, accumulatedErrorTerms,
                 backwards, arrival, written>>

\* for l := range lossChan { totalLoss += l }
TrainRecvLoss ==
  /\ mpc = "rangeLoss" /\ lossChan # <<>>
  /\ totalLoss' = totalLoss + Head(lossChan)
  /\ lossChan' = Tail(lossChan)
  /\ UNCHANGED <<modelVars, genVars, seqVars, noiseVars, nSentences, numCores, epoch, mpc, iBatch, sem, wg,
                 task, cpc, errorTermsChan, lossClosed, errClosed, accumulatedErrorTerms,
                 backwards, arrival, written>>

TrainLossDone ==
  /\ mpc = "rangeLoss" /\ RangeEnds(lossChan, lossClosed)
  /\ mpc' = "rangeErr"
  /\ UNCHANGED <<modelVars, genVars, seqVars, noiseVars, nSentences, numCores, epoch, iBatch, sem, wg, task,
                 cpc, chanVars, totalLoss, accumulatedErrorTerms, backwards, arrival, written>>

\* for et := range errorTermsChan { ... accumulatedErrorTerms[start+j] = terms }
TrainRecvErr ==
  /\ mpc = "rangeErr" /\ errorTermsChan # <<>>
  /\ accumulatedErrorTerms' = Placed(accumulatedErrorTerms, Head(errorTermsChan))
  /\ errorTermsChan' = Tail(errorTermsChan)
  /\ arrival' = Append(arrival, Head(errorTermsChan).batchIdx)
  /\ written' = [g \in DOMAIN written |->
                   IF g \in PlacedRows(accumulatedErrorTerms, Head(errorTermsChan))
                   THEN Append(written[g], Head(errorTermsChan).batchIdx)
                   ELSE written[g]]
  /\ UNCHANGED <<modelVars, genVars, seqVars, noiseVars, nSentences, numCores, epoch, mpc, iBatch, sem, wg,
                 task, cpc, lossChan, lossClosed, errClosed, totalLoss, backwards>>

TrainErrDone ==
  /\ mpc = "rangeErr" /\ RangeEnds(errorTermsChan, errClosed)
  /\ mpc' = "backward"
  /\ UNCHANGED <<modelVars, genVars, seqVars, noiseVars, nSentences, numCores, epoch, iBatch, sem, wg, task,
                 cpc, chanVars, totalLoss, accumulatedErrorTerms, backwards, arrival, written>>

\* model.Network.Backward(accumulatedErrorTerms, lr) is entered
TrainBackwardCall ==
  /\ mpc = "backward"
  /\ backwards' = backwards + 1
  /\ mpc' = "inBackward"
  /\ UNCHANGED <<modelVars, genVars, seqVars, noiseVars, nSentences, numCores, epoch, iBatch, sem, wg, task,
                 cpc, chanVars, totalLoss, accumulatedErrorTerms, arrival, written>>

\* Backward returns; every tenth epoch a sample is generated
TrainBackwardReturn ==
  /\ mpc = "inBackward"
  /\ IF epoch % 10 = 0
     THEN mpc' = "sample" /\ epoch' = epoch
     ELSE mpc' = "epoch" /\ epoch' = epoch + 1
  /\ UNCHANGED <<modelVars, genVars, seqVars, noiseVars, nSentences, numCores, iBatch, sem, wg, task, cpc,
                 chanVars, totalLoss, accumulatedErrorTerms, backwards, arrival, written>>

\* sample := model.GenerateMasked()
TrainSample ==
  /\ mpc = "sample"
  /\ mpc' = "epoch"
  /\ epoch' = epoch + 1
  /\ UNCHANGED <<modelVars, genVars, seqVars, noiseVars, nSentences, numCores, iBatch, sem, wg, task, cpc,
                 chanVars, totalLoss, accumulatedErrorTerms, backwards, arrival, written>>

(***************************************************************************)
(* The trainer's specification: trainMaskedDiffusion is called on a corpus *)
(* on a machine with some number of cores.                                 *)
(***************************************************************************)
TrainConfigs ==
  [NumTimesteps : {MaxT}, MaxLength : {MaxLen}, TopK : {1}, Epochs : 0..MaxEpochs,
   MaskScheduleStart : {0}, MaskScheduleEnd : {FracDen}]

InitTrain ==
  /\ \E config \in TrainConfigs :
       /\ Config = NewDiffusionModel(config).Config
       /\ MaskFraction = NewDiffusionModel(config).MaskFraction
       /\ atNew = NewDiffusionModel(config)
  /\ nSentences \in 0..MaxSentences
  /\ numCores \in 1..MaxCores
  /\ epoch = 0 /\ mpc = "epoch" /\ iBatch = 0 /\ sem = 0 /\ wg = 0
  /\ task = <<>> /\ cpc = "idle" /\ lossChan = <<>> /\ errorTermsChan = <<>>
  /\ lossClosed = FALSE /\ errClosed = FALSE /\ totalLoss = 0
  /\ accumulatedErrorTerms = <<>> /\ backwards = 0 /\ arrival = <<>> /\ written = <<>>
  /\ NoGenerator
  /\ NoNoising
  /\ NoSampleTrainer

NextTrain ==
  \/ TrainEpoch
  \/ TrainSpawn
  \/ TrainGoCloser
  \/ \E b \in DOMAIN task : TaskForward(b)
  \/ \E b \in DOMAIN task : TaskSendLoss(b)
  \/ \E b \in DOMAIN task : TaskSendErr(b)
  \/ \E b \in DOMAIN task : TaskReleaseSem(b)
  \/ \E b \in DOMAIN task : TaskWgDone(b)
  \/ CloserWait
  \/ CloserCloseLoss
  \/ CloserCloseErr
  \/ TrainRecvLoss
  \/ TrainLossDone
  \/ TrainRecvErr
  \/ TrainErrDone
  \/ TrainBackwardCall
  \/ TrainBackwardReturn
  \/ TrainSample

SpecTrain == InitTrain /\ [][NextTrain]_vars

(***************************************************************************)
(* The same trainer under the scheduler's fairness: a goroutine that can   *)
(* take a step eventually takes one, and a forward call returns.  Backward *)
(* and the sample generation are calls out of this function and are not    *)
(* required to return.                                                     *)
(***************************************************************************)
\* the steps of trainMaskedDiffusion's own goroutine up to the call of Backward
MainUpToBackward ==
  \/ TrainEpoch
  \/ TrainSpawn
  \/ TrainGoCloser
  \/ TrainRecvLoss
  \/ TrainLossDone
  \/ TrainRecvErr
  \/ TrainErrDone
  \/ TrainBackwardCall

\* the steps of the closing goroutine
Closer ==
  \/ CloserWait
  \/ CloserCloseLoss
  \/ CloserCloseErr

\* the steps of the goroutine of batch b
BatchTask(b) ==
  /\ b \in DOMAIN task
  /\ \/ TaskForward(b)
     \/ TaskSendLoss(b)
     \/ TaskSendErr(b)
     \/ TaskReleaseSem(b)
     \/ TaskWgDone(b)

SpecTrainFair ==
  /\ InitTrain /\ [][NextTrain]_vars
  /\ WF_vars(MainUpToBackward)
  /\ WF_vars(Closer)
  /\ \A b \in 0..(NumBatches(MaxSentences) - 1) : WF_vars(BatchTask(b))

(***************************************************************************)
(* The loop bodies of the three trainers, one sample at a time: Train,     *)
(* TrainBetterDiffusion and the per-sample work of a batch task of         *)
(* trainMaskedDiffusion (whose goroutines are the subject of SpecTrain).   *)
(***************************************************************************)
SampleTrainers == {"Train", "trainMaskedDiffusion", "TrainBetterDiffusion"}

\* a row of errorTerms that was allocated and never written
ZeroTerms == [m \in Tokens |-> 0]

NoLoss == [pos |-> 0, clean |-> -1, noisy |-> -1, counted |-> FALSE, num |-> 0, den |-> 1,
           row |-> <<>>]

\* input[0][i] = float64(tok): one row holding the token ids
RawIds(seq) == <<[k \in 0..(Len(seq) - 1) |-> seq[k + 1]]>>

\* what each trainer hands to ForwardTransformer
ForwardInput(tr, seq) == IF tr = "TrainBetterDiffusion" THEN OneHot(seq) ELSE RawIds(seq)

\* if delta > 5.0 { delta = 5.0 } else if delta < -5.0 { delta = -5.0 }, in units of 1/unit
Clip(delta, unit) ==
  IF delta > 5 * unit THEN 5 * unit ELSE IF delta < 0 - 5 * unit THEN 0 - 5 * unit ELSE delta

\* delta[m] = probs[m] - 1{m == target}, clipped, in units of 1/Mass(probs)
ErrorTerms(probs, target) ==
  [m \in Tokens |-> Clip(probs[m] - (IF m = target THEN Mass(probs) ELSE 0), Mass(probs))]

\* the position takes part in the loss: Train takes every position, the other two
\* the positions whose noised token is MASK
InLoss(tr, noisyTok) == tr = "Train" \/ noisyTok = MASK

\* what the loss loop does at one position: loss -= ln(max(probs[target], 1e-10)),
\* kept as the fraction num/den under the logarithm, and the error-term row
LossStep(tr, i, clean, noisyTok, probs) ==
  IF InLoss(tr, noisyTok)
  THEN [pos |-> i, clean |-> clean, noisy |-> noisyTok, counted |-> TRUE,
        num |-> probs[clean], den |-> Mass(probs), row |-> ErrorTerms(probs, clean)]
  ELSE [pos |-> i, clean |-> clean, noisy |-> noisyTok, counted |-> FALSE,
        num |-> 0, den |-> 1, row |-> ZeroTerms]

\* the noised sample: AddNoise(tokens, t), AddNoiseMasked(tokens, tVal) with
\* tVal = sT / FracDen, BetterAddNoise(x0, t)
NoisedSample(tr, clean, t) ==
  IF tr = "TrainBetterDiffusion" THEN BetterNoised(clean, MaskFraction[t])
  ELSE {[panic |-> FALSE, seq |-> q] :
          q \in RandomlyMasked(clean,
                               IF tr = "Train" THEN NoiseLevel(t, Config.NumTimesteps)
                                               ELSE [num |-> t, den |-> FracDen],
                               Config.MaxLength)}

\* the steps a trainer can draw: rand.Intn(NumTimesteps), or rand.Float64() as a
\* multiple of 1/FracDen below 1
StepDraws(tr) ==
  IF tr = "trainMaskedDiffusion" THEN 0..(FracDen - 1) ELSE 0..(Config.NumTimesteps - 1)

\* for epoch := 0; epoch < Epochs; epoch++
TrainerEpoch ==
  /\ spc = "epoch"
  /\ IF sEpoch < Config.Epochs
     THEN spc' = "sample" /\ sIdx' = 0
     ELSE spc' = "returned" /\ sIdx' = sIdx
  /\ UNCHANGED <<modelVars, genVars, noiseVars, trainVars, callerVars, trainer, sEpoch, nData, tokens, sT,
                 noisyTokens, input, sPos, lossAt>>

\* the next sample of the corpus, padded or cut to MaxLength, and its step;
\* rand.Intn panics when NumTimesteps <= 0
TrainerNextSample ==
  /\ spc = "sample"
  /\ IF sIdx >= nData
     THEN /\ spc' = "epoch" /\ sEpoch' = sEpoch + 1
          /\ UNCHANGED <<tokens, sT>>
     ELSE /\ tokens' \in [1..Config.MaxLength -> Tokens]
          /\ sEpoch' = sEpoch
          /\ IF trainer # "trainMaskedDiffusion" /\ Config.NumTimesteps <= 0
             THEN spc' = "panic" /\ sT' = sT
             ELSE spc' = "noise" /\ sT' \in StepDraws(trainer)
  /\ UNCHANGED <<modelVars, genVars, noiseVars, trainVars, callerVars, trainer, sIdx, nData, noisyTokens, input,
                 sPos, lossAt>>

\* the sample is noised, the input is built and ForwardTransformer is called
TrainerNoiseAndForward ==
  /\ spc = "noise"
  /\ \E result \in NoisedSample(trainer, tokens, sT) :
       IF result.panic
       THEN spc' = "panic" /\ UNCHANGED <<noisyTokens, input, sPos>>
       ELSE /\ noisyTokens' = result.seq
            /\ input' = ForwardInput(trainer, result.seq)
            /\ sPos' = 1
            /\ spc' = "loss"
  /\ UNCHANGED <<modelVars, genVars, noiseVars, trainVars, callerVars, trainer, sEpoch, sIdx, nData, tokens, sT,
                 lossAt>>

\* one position of the loss loop, on the model's output at that position
TrainerLossAt ==
  /\ spc = "loss" /\ sPos <= Len(noisyTokens) /\ lossAt.pos # sPos
  /\ \E probs \in ProbVectors :
       lossAt' = LossStep(trainer, sPos, tokens[sPos], noisyTokens[sPos], probs)
  /\ UNCHANGED <<modelVars, genVars, noiseVars, trainVars, callerVars, trainer, spc, sEpoch, sIdx, nData, tokens,
                 sT, noisyTokens, input, sPos>>

\* the loss loop moves to its next position
TrainerLossNext ==
  /\ spc = "loss" /\ sPos <= Len(noisyTokens) /\ lossAt.pos = sPos
  /\ sPos' = sPos + 1
  /\ lossAt' = NoLoss
  /\ UNCHANGED <<modelVars, genVars, noiseVars, trainVars, callerVars, trainer, spc, sEpoch, sIdx, nData, tokens,
                 sT, noisyTokens, input>>

\* Backward is called with the sample's error terms (Train, TrainBetterDiffusion), or
\* the batch task goes on to its next sample; the locals of the loop body go out of
\* scope
TrainerBackward ==
  /\ spc = "loss" /\ sPos > Len(noisyTokens)
  /\ sIdx' = sIdx + 1
  /\ spc' = "sample"
  /\ tokens' = <<>> /\ sT' = 0 /\ noisyTokens' = <<>> /\ input' = <<>> /\ sPos' = 1
  /\ lossAt' = NoLoss
  /\ UNCHANGED <<modelVars, genVars, noiseVars, trainVars, callerVars, trainer, sEpoch, nData>>

\* the configurations the trainers are run under, the malformed ones included
TrainerConfigs ==
  [NumTimesteps : 0..MaxT, MaxLength : {MaxLen}, TopK : {1}, Epochs : {0, 1},
   MaskScheduleStart : {0}, MaskScheduleEnd : {FracDen}]

InitTrainers ==
  /\ \E config \in TrainerConfigs :
       /\ Config = NewDiffusionModel(config).Config
       /\ MaskFraction = NewDiffusionModel(config).MaskFraction
       /\ atNew = NewDiffusionModel(config)
  /\ trainer \in SampleTrainers
  /\ nData \in 1..MaxCorpus
  /\ spc = "epoch" /\ sEpoch = 0 /\ sIdx = 0 /\ tokens = <<>> /\ sT = 0
  /\ noisyTokens = <<>> /\ input = <<>> /\ sPos = 1 /\ lossAt = NoLoss
  /\ samples = <<>> /\ data = <<>> /\ arrays = <<>>
  /\ NoGenerator
  /\ NoNoising
  /\ NoTraining

NextTrainers ==
  \/ TrainerEpoch
  \/ TrainerNextSample
  \/ TrainerNoiseAndForward
  \/ TrainerLossAt
  \/ TrainerLossNext
  \/ TrainerBackward

SpecTrainers == InitTrainers /\ [][NextTrainers]_vars

(***************************************************************************)
(* TrainBetterDiffusion(samples) as its caller sees it.  samples and data  *)
(* are slices of slices: each holds references, arrays holds what the      *)
(* referenced arrays contain.  The loop body is one step here: it reads x0 *)
(* and xt and writes its own locals, the loss and the network only; of the *)
(* locals the sample and its noised copy are kept, the drawn step is not.  *)
(***************************************************************************)
\* data := make([][]int, len(samples)); copy(data, samples)
TrainBetterCopy ==
  /\ trainer = "TrainBetterDiffusion" /\ spc = "copy"
  /\ data' = [i \in 1..Len(samples) |-> samples[i]]
  /\ spc' = "shuffle"
  /\ sEpoch' = 0
  /\ UNCHANGED <<modelVars, genVars, noiseVars, trainVars, samples, arrays, trainer, sIdx, nData,
                 tokens, sT, noisyTokens, input, sPos, lossAt>>

\* for epoch := 0; epoch < Epochs; epoch++ { rand.Shuffle(len(data), swap in data)
TrainBetterShuffle ==
  /\ trainer = "TrainBetterDiffusion" /\ spc = "shuffle"
  /\ IF sEpoch < Config.Epochs
     THEN /\ \E order \in Shuffles(1..Len(data)) :
               data' = [i \in 1..Len(data) |-> data[order[i]]]
          /\ samples' = CallerArray(samples, data')
          /\ sIdx' = 0
          /\ spc' = "body"
     ELSE /\ spc' = "returned"
          /\ UNCHANGED <<samples, data, sIdx>>
  /\ UNCHANGED <<modelVars, genVars, noiseVars, trainVars, arrays, trainer, sEpoch, nData,
                 tokens, sT, noisyTokens, input, sPos, lossAt>>

\* for _, x0 := range data { t := rand.Intn(NumTimesteps); xt := BetterAddNoise(x0, t);
\* input, forward, loss on the masked positions, Backward }
TrainBetterSample ==
  /\ trainer = "TrainBetterDiffusion" /\ spc = "body"
  /\ IF sIdx >= Len(data)
     THEN /\ spc' = "shuffle" /\ sEpoch' = sEpoch + 1
          /\ UNCHANGED <<arrays, sIdx, tokens, noisyTokens, input>>
     ELSE LET ref == data[sIdx + 1]
          IN \E t \in StepDraws(trainer) :
               \E result \in BetterNoised(arrays[ref], MaskFraction[t]) :
                 /\ tokens' = arrays[ref]
                 /\ noisyTokens' = result.seq
                 /\ arrays' = [arrays EXCEPT ![ref] = CallerArray(arrays[ref], result.seq)]
                 /\ sEpoch' = sEpoch
                 /\ IF result.panic
                    THEN spc' = "panic" /\ UNCHANGED <<sIdx, input>>
                    ELSE /\ input' = ForwardInput(trainer, result.seq)
                         /\ sIdx' = sIdx + 1
                         /\ spc' = "body"
  /\ UNCHANGED <<modelVars, genVars, noiseVars, trainVars, samples, data, trainer, nData, sT,
                 sPos, lossAt>>

CallerConfigs ==
  [NumTimesteps : {MaxT}, MaxLength : {MaxLen}, TopK : {1}, Epochs : 1..MaxEpochs,
   MaskScheduleStart : {0}, MaskScheduleEnd : {FracDen}]

\* the caller holds nData clean sequences of MaxLength tokens and passes them
InitTrainBetter ==
  /\ \E config \in CallerConfigs :
       /\ Config = NewDiffusionModel(config).Config
       /\ MaskFraction = NewDiffusionModel(config).MaskFraction
       /\ atNew = NewDiffusionModel(config)
  /\ trainer = "TrainBetterDiffusion"
  /\ nData \in 1..MaxCorpus
  /\ samples = [i \in 1..nData |-> i]
  /\ arrays \in [1..nData -> [1..Config.MaxLength -> Tokens]]
  /\ data = <<>>
  /\ spc = "copy" /\ sEpoch = 0 /\ sIdx = 0 /\ tokens = <<>> /\ sT = 0
  /\ noisyTokens = <<>> /\ input = <<>> /\ sPos = 1 /\ lossAt = NoLoss
  /\ NoGenerator
  /\ NoNoising
  /\ NoTraining

(***************************************************************************)
(* The caller's specification: a noising operation is called on a clean    *)
(* sequence, or TrainBetterDiffusion on a list of them.                    *)
(***************************************************************************)
InitCaller == InitNoise \/ InitTrainBetter

NextCaller ==
  \/ AddNoise
  \/ AddNoiseMasked
  \/ BetterAddNoise
  \/ TrainBetterCopy
  \/ TrainBetterShuffle
  \/ TrainBetterSample

SpecCaller == InitCaller /\ [][NextCaller]_vars

(***************************************************************************)
(* The whole program: any one of the five.                                 *)
(***************************************************************************)
Init == InitGen \/ InitNoise \/ InitTrain \/ InitTrainers \/ InitTrainBetter
Next ==
  \/ NextGen \/ NextNoise \/ NextTrain \/ NextTrainers
  \/ TrainBetterCopy \/ TrainBetterShuffle \/ TrainBetterSample
Spec == Init /\ [][Next]_vars

(***************************************************************************)
(* Claims about the generators, checked under SpecGen.                     *)
(***************************************************************************)
MaskedGenerator == gen \in {"GenerateMasked", "GenerateBetter"}
HasResolved == resolved.tok # -1
TopKInRange == atNew.Config.TopK >= 1 /\ atNew.Config.TopK <= VocabSize

\* C1: every generation call ends, and the working sequence it decodes or returns
\* holds no MASK token (all three generators, TopK in [1, VocabSize]).
C1_NoMaskAtReturn ==
  /\ TopKInRange => gpc # "panic"
  /\ gpc = "done" => \A i \in 1..Len(current) : current[i] # MASK

\* C3 as stated: the token assigned to a still-masked position is one of the
\* min(TopK, VocabSize) heaviest candidates once the MASK entry is zeroed.
C3_AlwaysAmongTopK ==
  (MaskedGenerator /\ HasResolved) => resolved.above < Min2(resolved.k, VocabSize)

\* C3 as amended: the same, except where GenerateBetter finds the remaining mass
\* under its floor and assigns token 0 without sampling.
C3_AmongTopKOrFloorFallback ==
  (MaskedGenerator /\ HasResolved) =>
     \/ resolved.above < Min2(resolved.k, VocabSize)
     \/ gen = "GenerateBetter" /\ resolved.mass < MassFloor /\ resolved.tok = 0

\* the second-heaviest candidate is drawn under a top-2 cut
C3_Witness ==
  /\ gen = "GenerateMasked" /\ HasResolved
  /\ resolved.k = 2 /\ resolved.above = 1 /\ resolved.mass = MassFloor

\* C8: Config and MaskFraction keep the values NewDiffusionModel gave them.
C8_ConfigNeverMutated ==
  /\ Config = atNew.Config
  /\ MaskFraction = atNew.MaskFraction

\* C9: with TopK outside [1, VocabSize] both masked generators run without a crash
\* and sample from min(max(TopK, 1), VocabSize) candidates.
C9_TopKClampedNoCrash ==
  (MaskedGenerator /\ ~TopKInRange) =>
     /\ gpc # "panic"
     /\ (HasResolved /\ resolved.mass >= MassFloor) =>
           resolved.k = ClampTopK(atNew.Config.TopK, VocabSize)

\* C10: a still-masked position whose mass is zero once the MASK entry is zeroed is
\* resolved to token 0, whatever the draw.
C10_ZeroMassResolvesToZero ==
  (MaskedGenerator /\ HasResolved /\ resolved.mass = 0) => resolved.tok = 0

(***************************************************************************)
(* Claims about the noising operations, checked under SpecNoise.           *)
(***************************************************************************)
\* k is N*f rounded to the nearest integer, halves up: k - 1/2 <= N*f < k + 1/2
IsRounded(k, N, f) ==
  /\ (2 * k - 1) * f.den <= 2 * N * f.num
  /\ 2 * N * f.num < (2 * k + 1) * f.den

\* C4: BetterAddNoise(x0, t) turns exactly round(N * MaskFraction[t]) distinct
\* non-PAD positions into MASK, leaves every other position as in x0, and returns
\* x0 unchanged when the fraction is not positive.
C4_FractionExactMasking ==
  (nop = "BetterAddNoise" /\ npc = "returned") =>
     LET f == MaskFraction[tIdx]
         N == Cardinality(NonPadIndices(x0))
     IN /\ Len(noisy) = Len(x0)
        /\ f.num <= 0 => noisy = x0
        /\ \E S \in SUBSET NonPadIndices(x0) :
             /\ IsRounded(Cardinality(S), N, f)
             /\ \A i \in 1..Len(x0) : noisy[i] = IF i \in S THEN MASK ELSE x0[i]

\* one non-pad token beside a PAD at fraction 1/2: round(0.5) = 1, and it is masked
C4_Witness ==
  /\ nop = "BetterAddNoise" /\ npc = "returned"
  /\ Cardinality(NonPadIndices(x0)) = 1 /\ \E n \in 1..Len(x0) : x0[n] = PAD
  /\ MaskFraction[tIdx].num * 2 = MaskFraction[tIdx].den
  /\ Cardinality({n \in 1..Len(x0) : noisy[n] = MASK /\ x0[n] # MASK}) = 1

(***************************************************************************)
(* Claims about trainMaskedDiffusion, checked under SpecTrain.             *)
(***************************************************************************)
Batches == DOMAIN task
AllTasksDone == \A b \in Batches : task[b].pc = "done"
\* started and not yet finished: the goroutine exists and has not run wg.Done()
Unfinished == {b \in Batches : task[b].pc \notin {"unspawned", "done"}}
\* started and still holding the semaphore slot taken for it
HoldingSlot == {b \in Batches : task[b].pc \in {"forward", "sendLoss", "sendErr", "release"}}

\* C2: whatever the order in which the tasks finish and send, the tensor handed to
\* Backward holds, at every corpus index, the row computed for that sample.
C2_AggregateIndependentOfOrder ==
  mpc = "inBackward" =>
     accumulatedErrorTerms = [g \in 0..(nSentences - 1) |-> ErrorRowOf(g)]

\* Backward is handed the tensor of three batches, the last one short, whose rows
\* arrived out of batch order
C2_Witness ==
  /\ mpc = "inBackward" /\ Len(arrival) = 3 /\ nSentences % BatchSize # 0
  /\ arrival[1] > arrival[2]

\* C5: Backward is called once per epoch, by the aggregating thread, after every
\* batch task of the epoch has finished.
C5_OneBackwardAfterAllTasks ==
  /\ backwards <= 1
  /\ mpc = "inBackward" => (backwards = 1 /\ AllTasksDone /\ Unfinished = {})
  /\ mpc = "sample" => backwards = 1
  /\ (mpc = "epoch" /\ epoch > 0) => backwards = 1
  /\ mpc \in {"spawn", "rangeLoss", "rangeErr", "backward"} => backwards = 0

\* Backward is running in the second epoch of a corpus of several batches
C5_Witness ==
  mpc = "inBackward" /\ epoch = 1 /\ NumBatches(nSentences) >= 2 /\ backwards = 1

C7_UnfinishedWithinThreads ==
  /\ Cardinality(Unfinished) <= NumThreads(numCores)
  /\ mpc \in {"rangeLoss", "rangeErr", "backward", "inBackward"} =>
        \A b \in 0..(NumBatches(nSentences) - 1) : task[b].pc # "unspawned"

\* C7 as amended: one task per batch, and never more than numThreads tasks started
\* and still holding their semaphore slot; the loop spawns no task without a slot.
C7_SlotHoldersWithinThreads ==
  /\ Cardinality(HoldingSlot) <= NumThreads(numCores)
  /\ Cardinality(HoldingSlot) = sem
  /\ mpc \in {"rangeLoss", "rangeErr", "backward", "inBackward"} =>
        \A b \in 0..(NumBatches(nSentences) - 1) : task[b].pc # "unspawned"

\* the batch loop is blocked: every slot is held and a batch is still to be spawned
C7_Witness ==
  /\ mpc = "spawn" /\ iBatch < nSentences
  /\ sem = NumThreads(numCores) /\ Cardinality(HoldingSlot) = sem

(***************************************************************************)
(* Further claims about the generators, checked under SpecGen.             *)
(***************************************************************************)
\* C16: in GenerateMasked and GenerateBetter a position that holds a token other
\* than MASK when an iteration starts holds that same token for the rest of the
\* iteration and after its re-masking, so the MASK positions after an iteration are
\* among those before it and a resolved token that survived a step is never changed.
C16_ResolvedTokensKept ==
  MaskedGenerator =>
     /\ Len(stepStart) = Len(current)
     /\ \A i \in 1..Len(current) : stepStart[i] # MASK => current[i] = stepStart[i]
     /\ gpc \in {"loop", "scan"} =>
           {i \in 1..Len(current) : current[i] = MASK} \subseteq
              {i \in 1..Len(current) : stepStart[i] = MASK}

\* an iteration that began with position 1 resolved has run its re-masking
C16_Witness ==
  /\ MaskedGenerator /\ gpc = "loop" /\ remask.ran /\ remask.iter = forwards
  /\ stepStart[1] # MASK /\ current[1] = stepStart[1]

C17_EachRowPlacedOnceByItsBatch ==
  /\ \A g \in DOMAIN written : Len(written[g]) <= 1
  /\ mpc = "inBackward" =>
        /\ DOMAIN accumulatedErrorTerms = 0..(nSentences - 1)
        /\ \A g \in 0..(nSentences - 1) :
              /\ written[g] = <<g \div BatchSize>>
              /\ task[g \div BatchSize].startIdx = (g \div BatchSize) * BatchSize
              /\ accumulatedErrorTerms[g] =
                    ErrorRowOf(task[g \div BatchSize].startIdx + (g % BatchSize))
        /\ \A b \in Batches : \A j \in 0..(task[b].size - 1) : b * BatchSize + j < nSentences

\* the single row of a short third batch is in place at index 20
C17_Witness ==
  /\ mpc = "inBackward" /\ nSentences = 2 * BatchSize + 1
  /\ written[2 * BatchSize] = <<2>> /\ task[2].size = 1

\* the sum of the loss values of batches 0..n-1
LossSum(n) == (n * (n + 1)) \div 2

\* C19: under fair scheduling an epoch that has set up its channels reaches the
\* Backward call; no send finds its channel full, every batch's loss and rows are
\* sent and received once, and when Backward is called every semaphore slot is free
\* and both channels are closed, for every corpus size and thread count.
C19_EpochReachesBackward ==
  /\ [](\A b \in Batches :
          /\ task[b].pc = "sendLoss" => Len(lossChan) < ChanCapacity(nSentences)
          /\ task[b].pc = "sendErr" => Len(errorTermsChan) < ChanCapacity(nSentences))
  /\ [](mpc = "inBackward" =>
          /\ sem = 0 /\ wg = 0 /\ lossClosed /\ errClosed
          /\ lossChan = <<>> /\ errorTermsChan = <<>>
          /\ totalLoss = LossSum(NumBatches(nSentences))
          /\ Len(arrival) = NumBatches(nSentences)
          /\ \A b \in Batches : \E n \in 1..Len(arrival) : arrival[n] = b)
  /\ (mpc = "spawn") ~> (mpc = "inBackward")

\* Backward is reached on a one-thread machine after three batches went through the
\* single semaphore slot
C19_Witness ==
  /\ mpc = "inBackward" /\ NumThreads(numCores) = 1 /\ NumBatches(nSentences) = 3
  /\ sem = 0 /\ lossClosed /\ errClosed /\ totalLoss = 6

\* C20: a batch task is inside its forward pass only while the main goroutine is
\* spawning or draining the loss channel; while Backward or the sample generation
\* runs every task of the epoch has finished and none of the next epoch has started.
C20_NoForwardDuringBackward ==
  /\ (\E b \in Batches : task[b].pc = "forward") => mpc \in {"spawn", "rangeLoss"}
  /\ mpc \in {"inBackward", "sample"} =>
        /\ \A b \in 0..(NumBatches(nSentences) - 1) : task[b].pc = "done"
        /\ iBatch >= nSentences

\* the sample generation of the first epoch runs after two batch tasks
C20_Witness ==
  /\ mpc = "sample" /\ epoch = 0 /\ NumBatches(nSentences) = 2
  /\ \A b \in Batches : task[b].pc = "done"

(***************************************************************************)
(* Further claims about the schedule and the noising operations, checked   *)
(* under SpecNoise.                                                        *)
(***************************************************************************)
\* C13 as stated: every noising operation returns a sequence as long as the clean
\* sequence it was given, whatever that length.
C13_SameLengthAsInput ==
  npc = "returned" => Len(noisy) = Len(x0)

\* C13 as amended: BetterAddNoise returns a sequence as long as its input; AddNoise
\* and AddNoiseMasked return MaxLength tokens, the input cut to MaxLength or padded
\* with PAD, with some of its non-PAD tokens set to MASK.
C13_InputLengthOrMaxLength ==
  npc = "returned" =>
     /\ nop = "BetterAddNoise" => Len(noisy) = Len(x0)
     /\ nop \in {"AddNoise", "AddNoiseMasked"} =>
           /\ Len(noisy) = Config.MaxLength
           /\ \A i \in 1..Len(noisy) :
                 IF i > Len(x0) THEN noisy[i] = PAD
                 ELSE IF x0[i] = PAD THEN noisy[i] = PAD
                 ELSE noisy[i] \in {x0[i], MASK}

\* AddNoise has cut a clean sequence longer than MaxLength
C13_Witness ==
  /\ nop = "AddNoise" /\ npc = "returned"
  /\ Len(x0) > Config.MaxLength /\ Len(noisy) = Config.MaxLength

\* C15: for NumTimesteps >= 2 every entry of the table NewDiffusionModel builds lies
\* in [0,1] and equals start + (end-start)*t/(T-1) clamped to [0,1], and the table does
\* not decrease in t when end >= start.
C15_ScheduleInRangeAndMonotone ==
  LET T == atNew.Config.NumTimesteps
      start == atNew.Config.MaskScheduleStart
      end == atNew.Config.MaskScheduleEnd
      rawDen == FracDen * (T - 1)
  IN T >= 2 =>
       /\ DOMAIN MaskFraction = 0..(T - 1)
       /\ \A t \in 0..(T - 1) :
             LET f == MaskFraction[t]
                 rawNum == start * (T - 1) + (end - start) * t
             IN /\ f.den > 0 /\ 0 <= f.num /\ f.num <= f.den
                /\ rawNum < 0 => f.num = 0
                /\ rawNum > rawDen => f.num = f.den
                /\ (0 <= rawNum /\ rawNum <= rawDen) => f.num * rawDen = rawNum * f.den
       /\ end >= start =>
             \A t \in 0..(T - 2) :
                MaskFraction[t].num * MaskFraction[t + 1].den
                   <= MaskFraction[t + 1].num * MaskFraction[t].den

\* a three-step schedule from below 0 to above 1: clamped at both ends, the middle
\* entry strictly between
C15_Witness ==
  /\ atNew.Config.NumTimesteps = 3
  /\ atNew.Config.MaskScheduleStart < 0 /\ atNew.Config.MaskScheduleEnd > FracDen
  /\ MaskFraction[0].num = 0 /\ MaskFraction[2].num = MaskFraction[2].den
  /\ MaskFraction[1].num > 0 /\ MaskFraction[1].num < MaskFraction[1].den
  /\ npc = "returned"

(***************************************************************************)
(* Claims about the trainers' loop bodies, checked under SpecTrainers.     *)
(***************************************************************************)
\* C11: with Epochs = 0 or NumTimesteps <= 1, Train and TrainBetterDiffusion on a
\* non-empty corpus run to their return and never panic.
C11_MalformedConfigNoCrash ==
  (/\ trainer \in {"Train", "TrainBetterDiffusion"}
   /\ (atNew.Config.Epochs = 0 \/ atNew.Config.NumTimesteps <= 1)) => spc # "panic"

\* C12: a position that holds PAD in the clean sample holds PAD in the noised one,
\* adds nothing to the loss and gets an all-zero error-term row, in all three trainers.
C12_PadOutOfMaskingAndLoss ==
  /\ spc = "loss" =>
        \A i \in 1..Len(noisyTokens) : tokens[i] = PAD => noisyTokens[i] = PAD
  /\ (lossAt.pos # 0 /\ lossAt.clean = PAD) =>
        /\ ~lossAt.counted \/ lossAt.num = lossAt.den
        /\ lossAt.row = ZeroTerms

\* C14: every input handed to ForwardTransformer, by a trainer or by a generator, is
\* the one-hot matrix of the sequence it stands for: MaxLength rows of VocabSize
\* entries.
C14_ForwardInputIsOneHot ==
  /\ input # <<>> =>
        /\ input = OneHot(noisyTokens)
        /\ Len(input) = Config.MaxLength
  /\ forwardInput # <<>> =>
        /\ forwardInput = OneHot(stepStart)
        /\ Len(forwardInput) = Config.MaxLength

(***************************************************************************)
(* Claims about GenerateBetter's last iteration, checked under SpecGen.    *)
(***************************************************************************)
\* the scan of the iteration t = 0 is over and the loop has been left
AfterFinalIteration ==
  /\ gen = "GenerateBetter"
  /\ gpc \in {"replace", "done"}
  /\ atNew.Config.NumTimesteps >= 1

\* C21: in GenerateBetter with NumTimesteps >= 1 no position is MASK once the
\* iteration t = 0 is over, whatever the model returned and whatever was drawn: the
\* positions resolved never receive MASK, the last iteration re-masks nothing, and
\* the replacement of MASK by 0 after the loop leaves every position as it is.
C21_NoMaskAfterFinalIteration ==
  /\ (gen = "GenerateBetter" /\ HasResolved) => resolved.tok # MASK
  /\ AfterFinalIteration =>
        /\ \A i \in 1..Len(current) : current[i] # MASK
        /\ ReplaceMask(current) = current
        /\ remask.step = 0 /\ ~remask.ran

\* the loop is left after three iterations; the position was masked again before the
\* last one, which drew its token from all VocabSize candidates, the MASK entry among
\* them
C21_Witness ==
  /\ AfterFinalIteration /\ gpc = "replace"
  /\ forwards = 3
  /\ stepStart[1] = MASK
  /\ resolved.k = VocabSize /\ resolved.mass >= MassFloor
  /\ current[1] = resolved.tok

(***************************************************************************)
(* Claims about what the caller keeps, checked under SpecCaller.           *)
(***************************************************************************)
\* C22: no noising or training operation changes the clean sequences it is given:
\* no step of AddNoise, AddNoiseMasked or BetterAddNoise changes the input slice, and
\* no step of TrainBetterDiffusion changes the order of the caller's samples or the
\* contents of any of them, although it shuffles its own data every epoch.
C22_CleanInputsUntouched ==
  [][x0' = x0 /\ samples' = samples /\ arrays' = arrays]_vars

\* a noising operation has returned a sequence with a MASK the input does not have
C22_NoiseWitness ==
  /\ npc = "returned"
  /\ \E i \in 1..Len(x0) : i <= Len(noisy) /\ noisy[i] = MASK /\ x0[i] # MASK

\* TrainBetterDiffusion has returned after two epochs; its data is in another order
\* than the caller's samples and the last sample it noised had a token masked
C22_Witness ==
  /\ trainer = "TrainBetterDiffusion" /\ spc = "returned"
  /\ sEpoch = 2
  /\ Len(samples) = 2 /\ data # samples
  /\ arrays[1] # arrays[2]
  /\ \E i \in 1..Len(tokens) : noisyTokens[i] = MASK /\ tokens[i] # MASK

====
